---- MODULE Spec2Model ----
\* Finance-GPT: the transaction ledger (budget.db, table "transactions") and the
\* deterministic tools of src/financegpt.py that read or change it, plus the
\* loan repayment ordering tool.
\*
\* Text is modelled as a sequence of one-character strings, so that lower(),
\* title(), date parsing and strftime are computed and not assumed.
\* Money is an integer number of mills (1/1000 of a currency unit); the ":.2f"
\* formatting rounds it to cents.
EXTENDS Integers, Sequences, FiniteSets, TLC

VARIABLES rows, seq, assigned, last, prev, pc, dirty, committed, leaked

vars == <<rows, seq, assigned, last, prev, pc, dirty, committed, leaked>>

\* ---------------------------------------------------------------- bounds
\* add_transaction calls in one run of the model
MaxAdds == 2
\* length of the loans list handed to calculate_loan_repayment
MaxLoans == 2
\* operations each concurrent caller starts
MaxCalls == 2

\* ------------------------------------------------------------------ text
UpperChars == <<"A","B","C","D","E","F","G","H","I","J","K","L","M",
                "N","O","P","Q","R","S","T","U","V","W","X","Y","Z">>
LowerChars == <<"a","b","c","d","e","f","g","h","i","j","k","l","m",
                "n","o","p","q","r","s","t","u","v","w","x","y","z">>
DigitChars == <<"0","1","2","3","4","5","6","7","8","9">>

UpperSet == {UpperChars[i] : i \in 1..26}
LowerSet == {LowerChars[i] : i \in 1..26}
DigitSet == {DigitChars[i] : i \in 1..10}

IsUpper(c) == c \in UpperSet
IsLower(c) == c \in LowerSet
IsAlpha(c) == IsUpper(c) \/ IsLower(c)
IsDigit(c) == c \in DigitSet

ToLower == [c \in UpperSet |-> LowerChars[CHOOSE i \in 1..26 : UpperChars[i] = c]]
ToUpper == [c \in LowerSet |-> UpperChars[CHOOSE i \in 1..26 : LowerChars[i] = c]]
DigitValue == [c \in DigitSet |-> (CHOOSE i \in 1..10 : DigitChars[i] = c) - 1]

LowerChar(c) == IF IsUpper(c) THEN ToLower[c] ELSE c
UpperChar(c) == IF IsLower(c) THEN ToUpper[c] ELSE c

\* str.lower()
Lower(s) == [i \in 1..Len(s) |-> LowerChar(s[i])]

\* str.title(): a letter that follows a non-letter is upper-cased, every other
\* letter is lower-cased
Title(s) == [i \in 1..Len(s) |->
               IF i = 1 \/ ~IsAlpha(s[i - 1]) THEN UpperChar(s[i]) ELSE LowerChar(s[i])]

AllDigits(s) == \A i \in 1..Len(s) : IsDigit(s[i])

RECURSIVE ToInt(_)
ToInt(s) == IF Len(s) = 0 THEN 0
            ELSE 10 * ToInt(SubSeq(s, 1, Len(s) - 1)) + DigitValue[s[Len(s)]]

\* "%02d" and "%04d" of strftime, for the years and fields of the model
Pad2(n) == <<DigitChars[((n \div 10) % 10) + 1], DigitChars[(n % 10) + 1]>>
Pad4(n) == Pad2(n \div 100) \o Pad2(n % 100)

\* ----------------------------------------------------------------- dates
MonthNames == << <<"j","a","n","u","a","r","y">>, <<"f","e","b","r","u","a","r","y">>,
                 <<"m","a","r","c","h">>, <<"a","p","r","i","l">>, <<"m","a","y">>,
                 <<"j","u","n","e">>, <<"j","u","l","y">>, <<"a","u","g","u","s","t">>,
                 <<"s","e","p","t","e","m","b","e","r">>, <<"o","c","t","o","b","e","r">>,
                 <<"n","o","v","e","m","b","e","r">>, <<"d","e","c","e","m","b","e","r">> >>

IsLeap(y) == (y % 4 = 0 /\ y % 100 # 0) \/ y % 400 = 0

DaysInMonth(y, m) == IF m = 2 THEN (IF IsLeap(y) THEN 29 ELSE 28)
                     ELSE IF m \in {4, 6, 9, 11} THEN 30 ELSE 31

ParseError == [ok |-> FALSE, y |-> 0, m |-> 0, d |-> 0]
Parsed(y, m, d) == [ok |-> TRUE, y |-> y, m |-> m, d |-> d]

\* a field the text does not give is taken from the default (today); a default
\* day past the end of the month falls back to the month's last day
ClampDay(y, m, d) == IF d > DaysInMonth(y, m) THEN DaysInMonth(y, m) ELSE d

IsIsoDate(s) == /\ Len(s) = 10
                /\ s[5] = "-" /\ s[8] = "-"
                /\ AllDigits(SubSeq(s, 1, 4)) /\ AllDigits(SubSeq(s, 6, 7))
                /\ AllDigits(SubSeq(s, 9, 10))

IsIsoMonth(s) == /\ Len(s) = 7
                 /\ s[5] = "-"
                 /\ AllDigits(SubSeq(s, 1, 4)) /\ AllDigits(SubSeq(s, 6, 7))

IsMonthYear(s) == /\ Len(s) >= 6
                  /\ s[Len(s) - 4] = " "
                  /\ AllDigits(SubSeq(s, Len(s) - 3, Len(s)))
                  /\ \E k \in 1..12 : MonthNames[k] = Lower(SubSeq(s, 1, Len(s) - 5))

\* dateutil.parser.parse(text) with default = today, on the shapes of text the
\* model feeds it: "YYYY-MM-DD", "YYYY-MM", "<month name> YYYY"; any other text,
\* and a month or day out of range, raises
date_parser_parse(s, today) ==
  IF IsIsoDate(s)
    THEN LET y == ToInt(SubSeq(s, 1, 4))
             m == ToInt(SubSeq(s, 6, 7))
             d == ToInt(SubSeq(s, 9, 10))
         IN IF m \in 1..12 /\ d >= 1 /\ d <= DaysInMonth(y, m)
              THEN Parsed(y, m, d) ELSE ParseError
  ELSE IF IsIsoMonth(s)
    THEN LET y == ToInt(SubSeq(s, 1, 4))
             m == ToInt(SubSeq(s, 6, 7))
         IN IF m \in 1..12 THEN Parsed(y, m, ClampDay(y, m, today.d)) ELSE ParseError
  ELSE IF IsMonthYear(s)
    THEN LET y == ToInt(SubSeq(s, Len(s) - 3, Len(s)))
             m == CHOOSE k \in 1..12 : MonthNames[k] = Lower(SubSeq(s, 1, Len(s) - 5))
         IN Parsed(y, m, ClampDay(y, m, today.d))
  ELSE ParseError

\* dt.strftime("%Y-%m-%d") and dt.strftime("%Y-%m")
strftime_ymd(dt) == Pad4(dt.y) \o <<"-">> \o Pad2(dt.m) \o <<"-">> \o Pad2(dt.d)
strftime_ym(dt) == Pad4(dt.y) \o <<"-">> \o Pad2(dt.m)

\* ---------------------------------------------------------------- ledger
\* A row of table transactions is [id, date, type, category, amount]; rows is
\* the table as the shared connection sees it, in rowid order; seq is the
\* AUTOINCREMENT counter SQLite keeps for the table (sqlite_sequence).

RECURSIVE MaxRowid(_)
MaxRowid(rs) == IF rs = << >> THEN 0
                ELSE LET m == MaxRowid(Tail(rs))
                     IN IF Head(rs).id > m THEN Head(rs).id ELSE m

Ids(rs) == {rs[i].id : i \in 1..Len(rs)}

\* a plain INTEGER PRIMARY KEY, without AUTOINCREMENT: one more than the largest
\* rowid now in the table
NextRowidNoAutoincrement(rs, sq) == MaxRowid(rs) + 1

\* id INTEGER PRIMARY KEY AUTOINCREMENT: one more than the largest rowid the
\* table has ever held
NextRowid(rs, sq) == (IF sq > MaxRowid(rs) THEN sq ELSE MaxRowid(rs)) + 1

\* no date given (None or the empty text)
NoDate == << >>

\* add_transaction, the date it stores
date_str_of(date, today) ==
  IF date # NoDate
    THEN LET dt == date_parser_parse(date, today)
         IN IF dt.ok THEN strftime_ymd(dt) ELSE date
    ELSE strftime_ymd(today)

\* an insert that, when the table already holds a row of the category, adds the
\* amount to that row in place
InsertRowOrAddToCategory(rs, sq, type, category, amount, date, today) ==
  IF \E i \in 1..Len(rs) : rs[i].category = category
    THEN LET k == CHOOSE i \in 1..Len(rs) : rs[i].category = category
         IN [rs EXCEPT ![k].amount = rs[k].amount + amount]
    ELSE Append(rs, [id |-> NextRowid(rs, sq), date |-> date_str_of(date, today),
                     type |-> Lower(type), category |-> category, amount |-> amount])

\* INSERT INTO transactions (date, type, category, amount) VALUES (?, ?, ?, ?)
InsertRow(rs, sq, type, category, amount, date, today) ==
  Append(rs, [id |-> NextRowid(rs, sq), date |-> date_str_of(date, today),
              type |-> Lower(type), category |-> category, amount |-> amount])

RemoveAt(rs, k) == [i \in 1..(Len(rs) - 1) |-> IF i < k THEN rs[i] ELSE rs[i + 1]]

\* a delete that takes record_id for the position of the row in the listing
DeleteRowAtPosition(rs, record_id) ==
  IF record_id \in 1..Len(rs) THEN RemoveAt(rs, record_id) ELSE rs

\* DELETE FROM transactions WHERE id = ?
DeleteRow(rs, record_id) == SelectSeq(rs, LAMBDA r : r.id # record_id)

\* a clear that leaves the income rows
DeleteExpenseRows(rs) == SelectSeq(rs, LAMBDA r : r.type # <<"e","x","p","e","n","s","e">>)

\* DELETE FROM transactions
DeleteAllRows(rs) == << >>

\* f"{x:.2f}": mills rounded to the nearest cent (a tie goes to the even cent)
Fmt2(x) == LET q == x \div 10
               r == x % 10
           IN IF r < 5 THEN q
              ELSE IF r > 5 THEN q + 1
              ELSE IF q % 2 = 0 THEN q ELSE q + 1

EmptySentinel == "No transactions recorded yet."

Raised(e) == [kind |-> "raised", msg |-> e]

\* the text add_transaction returns
add_transaction_text(type, category, amount, date, today) ==
  [kind |-> "text", msg |-> "Recorded", type |-> Title(type), amount |-> Fmt2(amount),
   category |-> category, date |-> date_str_of(date, today)]

\* list_transactions
list_transactions(rs) ==
  IF rs = << >> THEN [kind |-> "text", msg |-> EmptySentinel]
  ELSE [kind |-> "text", msg |-> "table", table |-> rs]

\* the text delete_transaction returns
delete_transaction_text(record_id) ==
  [kind |-> "text", msg |-> "Deleted transaction with id", id |-> record_id]

\* the text clear_transactions returns
clear_transactions_text == [kind |-> "text", msg |-> "All transactions have been cleared."]

\* -------------------------------------------------------- budget summary
TypeIncome == <<"i","n","c","o","m","e">>
TypeExpense == <<"e","x","p","e","n","s","e">>

\* pd.to_datetime on a stored date: the column holds what strftime("%Y-%m-%d")
\* wrote or a text dateutil refused; anything but a valid YYYY-MM-DD raises
to_datetime(s) == IF IsIsoDate(s) THEN date_parser_parse(s, [y |-> 1, m |-> 1, d |-> 1])
                  ELSE ParseError

\* a month filter kept as the caller wrote it
month_text_unparsed(m, today) == m

\* one month of the filter: parsed and written back as YYYY-MM, or kept as given
\* when it cannot be parsed
normalize_month(m, today) ==
  LET dt == date_parser_parse(m, today)
  IN IF dt.ok THEN strftime_ym(dt) ELSE m

\* df[df['date'].dt.strftime("%Y-%m").isin(normalized)]; no filter for None or []
filter_months(rs, months, today) ==
  IF months # << >>
    THEN LET normalized == {normalize_month(months[i], today) : i \in 1..Len(months)}
         IN SelectSeq(rs, LAMBDA r : strftime_ym(to_datetime(r.date)) \in normalized)
    ELSE rs

RECURSIVE SumAmount(_)
SumAmount(rs) == IF rs = << >> THEN 0 ELSE Head(rs).amount + SumAmount(Tail(rs))

\* df[df['type'] == t]['amount'].sum()
total_of_type(df, t) == SumAmount(SelectSeq(df, LAMBDA r : r.type = t))

\* a balance that adds the expenses
balance_added(total_inc, total_exp) == total_inc + total_exp

\* balance = total_inc - total_exp
balance_of(total_inc, total_exp) == total_inc - total_exp

\* df[df['type']=="expense"].groupby('category')['amount'].sum()
expense_breakdown(df) ==
  LET ex == SelectSeq(df, LAMBDA r : r.type = TypeExpense)
      cats == {ex[i].category : i \in 1..Len(ex)}
  IN [c \in cats |-> SumAmount(SelectSeq(ex, LAMBDA r : r.category = c))]

\* ", ".join(months)
RECURSIVE Join(_)
Join(ms) == IF ms = << >> THEN << >>
            ELSE IF Len(ms) = 1 THEN ms[1]
            ELSE ms[1] \o <<",", " ">> \o Join(Tail(ms))

AllTime == <<"a","l","l"," ","t","i","m","e">>

\* get_budget_summary: the sentinel on an empty table; to_datetime raising on a
\* stored date that is no date; otherwise label and the three figures, each
\* written with two decimals, and the expense breakdown
get_budget_summary(rs, months, today) ==
  IF rs = << >> THEN [kind |-> "text", msg |-> EmptySentinel]
  ELSE IF \E i \in 1..Len(rs) : ~to_datetime(rs[i].date).ok THEN Raised("to_datetime")
  ELSE LET df == filter_months(rs, months, today)
           total_inc == total_of_type(df, TypeIncome)
           total_exp == total_of_type(df, TypeExpense)
           balance == balance_of(total_inc, total_exp)
       IN [kind |-> "text", msg |-> "Budget Summary",
           label |-> IF months # << >> THEN Join(months) ELSE AllTime,
           income |-> Fmt2(total_inc), expenses |-> Fmt2(total_exp),
           balance |-> Fmt2(balance), breakdown |-> expense_breakdown(df)]

\* ------------------------------------------------------------------ loans
\* A loan is the dict the caller passes: keys says which of "balance" and "rate"
\* the dict holds (a field outside keys is absent, a NaN cell of the DataFrame).
StratAvalanche == <<"a","v","a","l","a","n","c","h","e">>

\* pd.DataFrame(loans).columns, as far as sorting goes
Columns(loans) == UNION {loans[i].keys : i \in 1..Len(loans)}

CellOf(l, col) == IF col = "rate" THEN l.rate ELSE l.balance

\* a may stand before b in a frame sorted by col: NaN cells go last
MayPrecede(a, b, col, ascending) ==
  IF col \notin b.keys THEN TRUE
  ELSE IF col \notin a.keys THEN FALSE
  ELSE IF ascending THEN CellOf(a, col) <= CellOf(b, col)
  ELSE CellOf(a, col) >= CellOf(b, col)

RowOrders(n) == {f \in [1..n -> 1..n] : \A i, j \in 1..n : i # j => f[i] # f[j]}

\* df.sort_values(by=col, ascending=...): the default sort is not stable, so
\* every order of the rows that is sorted by col is a possible outcome
sort_values(loans, col, ascending) ==
  {t \in {[i \in 1..Len(loans) |-> loans[f[i]]] : f \in RowOrders(Len(loans))} :
     \A i \in 1..(Len(t) - 1) : MayPrecede(t[i], t[i + 1], col, ascending)}

\* an avalanche that sorts the rates upwards
sort_order_ascending_rate(strategy) ==
  IF Lower(strategy) = StratAvalanche THEN [by |-> "rate", ascending |-> TRUE]
  ELSE [by |-> "balance", ascending |-> TRUE]

\* the column and direction the strategy text selects
sort_order(strategy) ==
  IF Lower(strategy) = StratAvalanche THEN [by |-> "rate", ascending |-> FALSE]
  ELSE [by |-> "balance", ascending |-> TRUE]

\* calculate_loan_repayment: the outcomes it can have; sorting by a column the
\* frame lacks (no loan at all, or no loan with that key) raises KeyError
calculate_loan_repayment(loans, strategy) ==
  LET o == sort_order(strategy)
  IN IF o.by \notin Columns(loans) THEN {Raised("KeyError")}
     ELSE {[kind |-> "text", msg |-> "Repayment Strategy", heading |-> Title(strategy),
            table |-> t] : t \in sort_values(loans, o.by, o.ascending)}

\* ----------------------------------------------------------------- inputs
TxtApril2025 == <<"A","p","r","i","l"," ","2","0","2","5">>
TxtMay2025 == <<"M","a","y"," ","2","0","2","5">>
Txt20250415 == <<"2","0","2","5","-","0","4","-","1","5">>
Txt20250230 == <<"2","0","2","5","-","0","2","-","3","0">>
Txt202504 == <<"2","0","2","5","-","0","4">>
Txt202505 == <<"2","0","2","5","-","0","5">>
TxtSoon == <<"s","o","o","n">>

CatSalary == <<"s","a","l","a","r","y">>
CatFood == <<"f","o","o","d">>
CatRent == <<"r","e","n","t">>
CatInvestment == <<"I","n","v","e","s","t","m","e","n","t"," ","f","u","n","d">>

\* what datetime.datetime.now() can answer
Todays == {[y |-> 2025, m |-> 4, d |-> 15], [y |-> 2025, m |-> 5, d |-> 31]}

\* the add_transaction calls of the model; amounts are even numbers of mills,
\* so no sum of them lies exactly between two cents
AddInputs ==
  { [type |-> <<"I","n","c","o","m","e">>, category |-> CatSalary, amount |-> 50004,
     date |-> TxtApril2025],
    [type |-> TypeExpense, category |-> CatFood, amount |-> 1006, date |-> Txt20250415],
    [type |-> <<"E","x","p","e","n","s","e">>, category |-> CatInvestment, amount |-> 4,
     date |-> NoDate],
    [type |-> TypeExpense, category |-> CatRent, amount |-> -2000, date |-> Txt202505],
    [type |-> TypeExpense, category |-> CatRent, amount |-> 1006, date |-> TxtSoon],
    [type |-> TypeIncome, category |-> CatSalary, amount |-> 4, date |-> Txt20250230] }

\* the month filters of the model; << >> is months=None
MonthFilters == { << >>, <<TxtApril2025>>, <<Txt202504>>, <<TxtMay2025, Txt202504>>,
                  <<TxtSoon>> }

\* the ids delete_transaction is called with: every id the model can assign and
\* one it never assigns
DeleteIds == 1..(MaxAdds + 1)

Loan(name, balance, rate, keys) ==
  [name |-> name, balance |-> balance, rate |-> rate, keys |-> keys]

FullLoans == {Loan(n, b, r, {"balance", "rate"}) : n \in {"A", "B"}, b \in {500, 1000},
              r \in {5, 9}}

LoanPool == FullLoans \cup {Loan("C", 700, 0, {"balance"}), Loan("D", 0, 7, {"rate"})}

RECURSIVE SeqsUpTo(_, _)
SeqsUpTo(S, n) == IF n = 0 THEN {<< >>}
                  ELSE LET shorter == SeqsUpTo(S, n - 1)
                       IN shorter \cup {Append(q, x) : q \in shorter, x \in S}

LoanLists == SeqsUpTo(LoanPool, MaxLoans)

SampleLoanLists == { << >>, <<Loan("A", 1000, 5, {"balance", "rate"}),
                              Loan("B", 500, 9, {"balance", "rate"})>>,
                     <<Loan("C", 700, 0, {"balance"})>> }

Strategies == { StratAvalanche, <<"A","V","A","L","A","N","C","H","E">>,
                <<"s","n","o","w","b","a","l","l">>, <<"f","a","s","t","e","s","t">> }

Callers == {"c1", "c2"}

\* ------------------------------------------------------------------ state
\* rows, seq: table transactions and its AUTOINCREMENT counter, as the one
\*   shared connection sees them; committed: the rows the last commit wrote
\* assigned: the ids add_transaction has assigned, in order (history)
\* last: the last tool call, with its input and what it returned or raised
\* prev: the call before it (history)
\* pc, dirty, leaked: only for callers that run concurrently: where each caller
\*   is in its call, whose statements lie uncommitted in the connection's open
\*   transaction, and the callers whose uncommitted statement another caller's
\*   commit has written (history)
Call(op, id, input, out) == [op |-> op, id |-> id, input |-> input, out |-> out]

Init ==
  /\ rows = << >>
  /\ seq = 0
  /\ assigned = << >>
  /\ last = Call("start", 0, << >>, [kind |-> "text", msg |-> "start"])
  /\ prev = [op |-> "none", id |-> 0]
  /\ pc = [c \in Callers |-> [at |-> "idle", calls |-> 0]]
  /\ dirty = {}
  /\ committed = << >>
  /\ leaked = {}

Returned(call) ==
  /\ last' = call
  /\ prev' = [op |-> last.op, id |-> last.id]

\* ----------------------------------------- tool calls, one after the other
AddTransaction(in, today) ==
  LET new_id == NextRowid(rows, seq)
  IN /\ Len(assigned) < MaxAdds
     /\ rows' = InsertRow(rows, seq, in.type, in.category, in.amount, in.date, today)
     /\ seq' = new_id
     /\ assigned' = Append(assigned, new_id)
     /\ committed' = rows'
     /\ Returned(Call("add", new_id, in,
                      add_transaction_text(in.type, in.category, in.amount, in.date, today)))
     /\ UNCHANGED <<pc, dirty, leaked>>

ListTransactions ==
  /\ Returned(Call("list", 0, << >>, list_transactions(rows)))
  /\ UNCHANGED <<rows, seq, assigned, pc, dirty, committed, leaked>>

DeleteTransaction(record_id) ==
  /\ rows' = DeleteRow(rows, record_id)
  /\ committed' = rows'
  /\ Returned(Call("delete", record_id, << >>, delete_transaction_text(record_id)))
  /\ UNCHANGED <<seq, assigned, pc, dirty, leaked>>

ClearTransactions ==
  /\ rows' = DeleteAllRows(rows)
  /\ committed' = rows'
  /\ Returned(Call("clear", 0, << >>, clear_transactions_text))
  /\ UNCHANGED <<seq, assigned, pc, dirty, leaked>>

GetBudgetSummary(months, today) ==
  /\ Returned(Call("summary", 0, months, get_budget_summary(rows, months, today)))
  /\ UNCHANGED <<rows, seq, assigned, pc, dirty, committed, leaked>>

CalculateLoanRepayment(loans, strategy) ==
  /\ \E out \in calculate_loan_repayment(loans, strategy) :
       Returned(Call("loan", 0, [loans |-> loans, strategy |-> strategy], out))
  /\ UNCHANGED <<rows, seq, assigned, pc, dirty, committed, leaked>>

Next ==
  \/ \E in \in AddInputs, today \in Todays : AddTransaction(in, today)
  \/ ListTransactions
  \/ \E record_id \in DeleteIds : DeleteTransaction(record_id)
  \/ ClearTransactions
  \/ \E months \in MonthFilters, today \in Todays : GetBudgetSummary(months, today)

Spec == Init /\ [][Next]_vars

\* ------------------------------------------- every tool of the budget agent
NextTools ==
  \/ Next
  \/ \E loans \in SampleLoanLists, strategy \in Strategies :
       CalculateLoanRepayment(loans, strategy)

SpecTools == Init /\ [][NextTools]_vars

\* ------------------------------------------- the investment read tools
TxtInvestment == <<"i","n","v","e","s","t","m","e","n","t">>

\* Series.str.contains("investment", case=False)
contains_investment(category) ==
  \E k \in 1..(Len(category) - Len(TxtInvestment) + 1) :
    Lower(SubSeq(category, k, k + Len(TxtInvestment) - 1)) = TxtInvestment

\* df[df['category'].str.contains("investment", case=False, na=False)]
investment_rows(rs) == SelectSeq(rs, LAMBDA r : contains_investment(r.category))

\* inv.groupby('category')['amount'].sum()
investment_breakdown(inv) ==
  LET cats == {inv[i].category : i \in 1..Len(inv)}
  IN [c \in cats |-> SumAmount(SelectSeq(inv, LAMBDA r : r.category = c))]

\* get_investment_summary
get_investment_summary(rs) ==
  IF rs = << >> THEN [kind |-> "text", msg |-> EmptySentinel]
  ELSE LET inv == investment_rows(rs)
       IN IF inv = << >> THEN [kind |-> "text", msg |-> "No investment transactions found."]
          ELSE [kind |-> "text", msg |-> "Total Invested", total |-> Fmt2(SumAmount(inv)),
                breakdown |-> investment_breakdown(inv)]

\* list_investments: the investment rows with columns id, date, category, amount
list_investments(rs) ==
  IF rs = << >> THEN [kind |-> "text", msg |-> EmptySentinel]
  ELSE LET inv == investment_rows(rs)
       IN IF inv = << >> THEN [kind |-> "text", msg |-> "No investments found."]
          ELSE [kind |-> "text", msg |-> "table",
                table |-> [i \in 1..Len(inv) |->
                             [id |-> inv[i].id, date |-> inv[i].date,
                              category |-> inv[i].category, amount |-> inv[i].amount]]]

GetInvestmentSummary ==
  /\ Returned(Call("investment_summary", 0, << >>, get_investment_summary(rows)))
  /\ UNCHANGED <<rows, seq, assigned, pc, dirty, committed, leaked>>

ListInvestments ==
  /\ Returned(Call("list_investments", 0, << >>, list_investments(rows)))
  /\ UNCHANGED <<rows, seq, assigned, pc, dirty, committed, leaked>>

\* the month filters of the runs that call every ledger tool: none, and one month
LedgerMonthFilters == { << >>, <<TxtApril2025>> }

\* every tool that reads or changes the ledger
NextLedger ==
  \/ \E in \in AddInputs, today \in Todays : AddTransaction(in, today)
  \/ ListTransactions
  \/ \E record_id \in DeleteIds : DeleteTransaction(record_id)
  \/ ClearTransactions
  \/ \E months \in LedgerMonthFilters, today \in Todays : GetBudgetSummary(months, today)
  \/ GetInvestmentSummary
  \/ ListInvestments

SpecLedger == Init /\ [][NextLedger]_vars

\* ------------------------------------------------- the loan tool on its own
\* calculate_loan_repayment reads nothing but its arguments: a behaviour starts
\* with one request, and the tool answers it
InitLoan ==
  /\ rows = << >>
  /\ seq = 0
  /\ assigned = << >>
  /\ \E loans \in LoanLists, strategy \in Strategies :
       last = Call("loan_request", 0, [loans |-> loans, strategy |-> strategy],
                   [kind |-> "text", msg |-> "pending"])
  /\ prev = [op |-> "none", id |-> 0]
  /\ pc = [c \in Callers |-> [at |-> "idle", calls |-> 0]]
  /\ dirty = {}
  /\ committed = << >>
  /\ leaked = {}

AnswerLoanRequest ==
  /\ last.op = "loan_request"
  /\ CalculateLoanRepayment(last.input.loans, last.input.strategy)

SpecLoan == InitLoan /\ [][AnswerLoanRequest]_vars

\* ------------------------------------ callers that run at the same time
\* The module opens one connection with check_same_thread=False and takes no
\* lock: a caller's execute() and its commit() are two steps, and another
\* caller's steps may fall between them. SQLite runs each statement, and each
\* commit, as a whole.
Started(c) == pc' = [pc EXCEPT ![c] = [at |-> "executed", calls |-> pc[c].calls + 1]]

CanStart(c) == pc[c].at = "idle" /\ pc[c].calls < MaxCalls

ExecuteInsert(c, in, today) ==
  /\ CanStart(c)
  /\ Len(assigned) < MaxAdds
  /\ rows' = InsertRow(rows, seq, in.type, in.category, in.amount, in.date, today)
  /\ seq' = NextRowid(rows, seq)
  /\ assigned' = Append(assigned, NextRowid(rows, seq))
  /\ dirty' = dirty \cup {c}
  /\ Started(c)
  /\ UNCHANGED <<last, prev, committed, leaked>>

ExecuteDelete(c, record_id) ==
  /\ CanStart(c)
  /\ rows' = DeleteRow(rows, record_id)
  /\ dirty' = dirty \cup {c}
  /\ Started(c)
  /\ UNCHANGED <<seq, assigned, last, prev, committed, leaked>>

ExecuteClear(c) ==
  /\ CanStart(c)
  /\ rows' = DeleteAllRows(rows)
  /\ dirty' = dirty \cup {c}
  /\ Started(c)
  /\ UNCHANGED <<seq, assigned, last, prev, committed, leaked>>

\* conn.commit(): writes everything the connection's open transaction holds
Commit(c) ==
  /\ pc[c].at = "executed"
  /\ committed' = rows
  /\ leaked' = leaked \cup {d \in dirty \ {c} : pc[d].at = "executed"}
  /\ dirty' = {}
  /\ pc' = [pc EXCEPT ![c].at = "idle"]
  /\ UNCHANGED <<rows, seq, assigned, last, prev>>

NextConcurrent ==
  \/ \E c \in Callers, in \in AddInputs, today \in Todays : ExecuteInsert(c, in, today)
  \/ \E c \in Callers, record_id \in DeleteIds : ExecuteDelete(c, record_id)
  \/ \E c \in Callers : ExecuteClear(c)
  \/ \E c \in Callers : Commit(c)

SpecConcurrent == Init /\ [][NextConcurrent]_vars

\* ================================================================ claims
AllDatesParse == \A i \in 1..Len(rows) : to_datetime(rows[i].date).ok

C2_DeleteIsIdempotent ==
  [][\A id \in DeleteIds :
       (last'.op = "delete" /\ last'.id = id) =>
         /\ last'.out.kind = "text"
         /\ (last.op = "delete" /\ last.id = id) => (rows' = rows /\ last'.out = last.out)
         /\ id \notin Ids(rows) => rows' = rows]_vars

\* the same id deleted twice in a row, an id that had been assigned, with
\* another row still in the table
C2_Witness ==
  /\ prev.op = "delete" /\ last.op = "delete" /\ prev.id = last.id
  /\ \E i \in 1..Len(assigned) : assigned[i] = last.id
  /\ rows # << >>

\* ---- C3 -----------------------------------------------------------------
\* C3: with callers running at the same time, a caller's commit writes only
\* that caller's own statement: no commit publishes the statement of another
\* caller that has not yet committed.
C3_CommitPublishesOnlyOwnStatement == leaked = {}

\* ---- C4 -----------------------------------------------------------------
\* C4: every stored date has the form YYYY-MM-DD.
C4_StoredDatesAreYYYYMMDD == \A i \in 1..Len(rows) : IsIsoDate(rows[i].date)

\* ---- C5 -----------------------------------------------------------------
SelectedRows(months, today) ==
  {i \in 1..Len(rows) :
     \/ months = << >>
     \/ \E k \in 1..Len(months) :
          strftime_ym(to_datetime(rows[i].date)) = normalize_month(months[k], today)}

RECURSIVE SumOfRows(_)
SumOfRows(S) == IF S = {} THEN 0
                ELSE LET i == CHOOSE x \in S : TRUE
                     IN rows[i].amount + SumOfRows(S \ {i})

IncomeOf(months, today) ==
  SumOfRows({i \in SelectedRows(months, today) : rows[i].type = TypeIncome})
ExpensesOf(months, today) ==
  SumOfRows({i \in SelectedRows(months, today) : rows[i].type = TypeExpense})

C6_AsStated ==
  \A today \in Todays :
    get_budget_summary(rows, <<TxtApril2025>>, today)
      = get_budget_summary(rows, <<Txt202504>>, today)

\* C6 amended: the two calls return the same income, expenses, balance and
\* expense breakdown (or both the empty-ledger text, or both raise); the
\* heading of each names the month as the caller wrote it.
C6_SameFiguresForBothSpellings ==
  \A today \in Todays :
    LET a == get_budget_summary(rows, <<TxtApril2025>>, today)
        b == get_budget_summary(rows, <<Txt202504>>, today)
    IN /\ a.kind = b.kind /\ a.msg = b.msg
       /\ a.msg = "Budget Summary" =>
            /\ a.income = b.income /\ a.expenses = b.expenses
            /\ a.balance = b.balance /\ a.breakdown = b.breakdown
            /\ a.label = TxtApril2025 /\ b.label = Txt202504

\* a summary for April asked for on a ledger with a row in April and a row
\* outside it
C6_Witness ==
  /\ last.op = "summary"
  /\ last.input \in {<<TxtApril2025>>, <<Txt202504>>}
  /\ last.out.msg = "Budget Summary"
  /\ last.out.income # 0
  /\ Len(filter_months(rows, last.input, [y |-> 2025, m |-> 4, d |-> 15])) < Len(rows)

\* ---- C7 -----------------------------------------------------------------
\* C7: every stored transaction has a non-negative amount.
C7_AmountsAreNonNegative == \A i \in 1..Len(rows) : rows[i].amount >= 0

\* ---- C8 -----------------------------------------------------------------
\* C8: every tool call returns text; none raises.
C8_ToolsNeverRaise == last.out.kind = "text"

\* ---- C9 -----------------------------------------------------------------
IsReordering(t, loans) ==
  /\ Len(t) = Len(loans)
  /\ \E f \in RowOrders(Len(loans)) : \A i \in 1..Len(loans) : t[i] = loans[f[i]]

ExA == Loan("A", 1000, 5, {"balance", "rate"})
ExB == Loan("B", 500, 9, {"balance", "rate"})
InvA == Loan("A", 1000, 9, {"balance", "rate"})
InvB == Loan("B", 500, 5, {"balance", "rate"})

\* C9: calculate_loan_repayment returns the loans it was given, reordered: by
\* rate downwards for "avalanche" in any letter case, by balance upwards for
\* "snowball" and for any other strategy text. [A 1000 5%, B 500 9%] comes back
\* as [B, A] under both; with rates and balances inverted avalanche gives
\* [A, B] and snowball [B, A].
C9_LoansAreReordered ==
  last.op = "loan" =>
    LET loans == last.input.loans
        strategy == last.input.strategy
        out == last.out
        avalanche == strategy \in {StratAvalanche, <<"A","V","A","L","A","N","C","H","E">>}
    IN /\ (loans # << >> /\ \A i \in 1..Len(loans) : loans[i].keys = {"balance", "rate"})
            => out.kind = "text"
       /\ out.kind = "text" =>
            /\ IsReordering(out.table, loans)
            /\ \A i, j \in 1..Len(out.table) :
                 (i < j /\ avalanche /\ "rate" \in out.table[i].keys
                    /\ "rate" \in out.table[j].keys)
                   => out.table[i].rate >= out.table[j].rate
            /\ \A i, j \in 1..Len(out.table) :
                 (i < j /\ ~avalanche /\ "balance" \in out.table[i].keys
                    /\ "balance" \in out.table[j].keys)
                   => out.table[i].balance <= out.table[j].balance
       /\ loans = <<ExA, ExB>> => out.table = <<ExB, ExA>>
       /\ loans = <<InvB, InvA>> =>
            out.table = IF avalanche THEN <<InvA, InvB>> ELSE <<InvB, InvA>>

\* the inverted pair, given lowest rate first, under "AVALANCHE": the answer
\* puts A first
C9_Witness ==
  /\ last.op = "loan"
  /\ last.input.loans = <<InvB, InvA>>
  /\ last.input.strategy = <<"A","V","A","L","A","N","C","H","E">>
  /\ last.out.kind = "text"
  /\ last.out.table = <<InvA, InvB>>

\* ---- C10 ----------------------------------------------------------------
\* C10: right after clear_transactions the table is empty, so the listing that
\* follows it returns "No transactions recorded yet.", whatever was added and
\* deleted before.
C10_ClearThenListIsEmpty ==
  /\ last.op = "clear" =>
       list_transactions(rows) = [kind |-> "text", msg |-> EmptySentinel]
  /\ (prev.op = "clear" /\ last.op = "list") =>
       last.out = [kind |-> "text", msg |-> EmptySentinel]

\* a listing taken right after a clear, in a run that had added every row the
\* model allows
C10_Witness ==
  /\ prev.op = "clear" /\ last.op = "list"
  /\ Len(assigned) = MaxAdds

\* ---- C11 ----------------------------------------------------------------
ReadOps == {"list", "summary", "investment_summary", "list_investments"}

\* C11: no step changes a row in place: a row that is in the table before and
\* after a step is the same record; add_transaction keeps every row there was
\* and appends one; delete_transaction(id) removes at most one row, only a row
\* with that id, and keeps every other row; list_transactions,
\* get_budget_summary, get_investment_summary and list_investments leave the
\* table, its id counter and what is committed as they were.
C11_RowsAreNeverChangedInPlace ==
  [][/\ \A i \in 1..Len(rows), j \in 1..Len(rows') :
          rows[i].id = rows'[j].id => rows'[j] = rows[i]
     /\ last'.op = "add" =>
          /\ Len(rows') = Len(rows) + 1
          /\ \A i \in 1..Len(rows) : rows'[i] = rows[i]
          /\ rows'[Len(rows')].id \notin Ids(rows)
     /\ last'.op = "delete" =>
          /\ Len(rows') >= Len(rows) - 1
          /\ \A i \in 1..Len(rows) :
               rows[i].id # last'.id => \E j \in 1..Len(rows') : rows'[j] = rows[i]
          /\ \A j \in 1..Len(rows') : \E i \in 1..Len(rows) : rows[i] = rows'[j]
     /\ last'.op \in ReadOps =>
          (rows' = rows /\ seq' = seq /\ committed' = committed)]_vars

\* the second row added is still in the table, unchanged in what the listing
\* of investments shows, after the first row was deleted
C11_Witness ==
  /\ prev.op = "delete" /\ prev.id = 1
  /\ last.op = "list_investments"
  /\ last.out.msg = "table"
  /\ Len(rows) = 1 /\ rows[1].id = 2
  /\ last.out.table[1].id = 2 /\ last.out.table[1].amount = rows[1].amount

====
